---- MODULE Spec2Model ----
(***************************************************************************)
(* Model of final_project.py: a sequential pipeline that resolves two      *)
(* locations, ingests breweries and weather for each into three SQLite     *)
(* tables, runs one correlation query whose result is appended to a text   *)
(* report, and renders four charts.  The database, the report and the      *)
(* image files persist between runs of the script.  The image files are    *)
(* overwritten by every run and read by none: how a chart routine ended is *)
(* recorded with the call, the files themselves are not part of the state. *)
(*                                                                         *)
(* Values: a nullable value is <<>> (NULL / None) or <<v>>.  Temperatures  *)
(* are integers in tenths of a degree; the rounded average returned by the *)
(* query is an integer in hundredths of a degree.                          *)
(***************************************************************************)
EXTENDS Integers, Sequences, FiniteSets, TLC

VARIABLES Locations, Breweries, Weather, report,
          pc, ci, location_ids, last, runs

vars == <<Locations, Breweries, Weather, report,
          pc, ci, location_ids, last, runs>>

(***************************************************************************)
(* Bounds of the model.                                                    *)
(***************************************************************************)
\* number of runs of the script that Spec follows
MaxRuns == 2
\* number of items of a brewery page that is not full
ShortPage == 3

(***************************************************************************)
(* Configuration (lines 12-30).                                            *)
(***************************************************************************)
PER_PAGE_LIMIT == 25
ROW_MINIMUM == 100

BREWERY_BASE_URL == "https://api.openbrewerydb.org/v1/breweries"
WEATHER_URL == "https://api.open-meteo.com/v1/forecast"

CITIES ==
    << [city |-> "Ann Arbor", state |-> "Michigan", lat |-> 422776,
        long |-> -837409, filter_type |-> "state"],
       [city |-> "Dallas", state |-> "Texas", lat |-> 327831,
        long |-> -968067, filter_type |-> "city_state"] >>

TARGET_CITY == CITIES[1].city
TARGET_STATE == CITIES[1].state

NULL == <<>>
Some(v) == <<v>>

(***************************************************************************)
(* Helpers over finite sets.                                               *)
(***************************************************************************)
RECURSIVE SumOf(_, _)
\* sum of f[x] over the finite set S
SumOf(f, S) ==
    IF S = {} THEN 0
    ELSE LET x == CHOOSE y \in S : TRUE IN f[x] + SumOf(f, S \ {x})

MaxOf(S) == CHOOSE m \in S : \A y \in S : y <= m
MinOf(S) == CHOOSE m \in S : \A y \in S : m <= y

(***************************************************************************)
(* The three tables (create_database).  A table is the set of its rows.    *)
(***************************************************************************)
\* INTEGER PRIMARY KEY [AUTOINCREMENT]: with no row ever deleted the next
\* key is the largest key of the table plus one.
NextRowId(ids) == IF ids = {} THEN 1 ELSE MaxOf(ids) + 1

\* INSERT INTO Locations (City, State, Latitude, Longitude)
InsertLocation(table, city, state, lat, long) ==
    table \cup {[LocationID |-> NextRowId({r.LocationID : r \in table}),
                 City |-> city, State |-> state,
                 Latitude |-> lat, Longitude |-> long]}

\* INSERT OR IGNORE INTO Breweries: a row that violates NOT NULL (Name) or
\* UNIQUE (Name, LocationID) is skipped without an error.
InsertOrIgnoreBrewery(table, name, type, url, location_id) ==
    IF \/ name = NULL
       \/ \E r \in table : r.Name = name /\ r.LocationID = location_id
    THEN table
    ELSE table \cup {[BreweryID |-> NextRowId({r.BreweryID : r \in table}),
                      Name |-> name, BreweryType |-> type,
                      WebsiteURL |-> url, LocationID |-> location_id]}

\* faulty variant: INSERT OR REPLACE: the row that holds the key is replaced
InsertOrReplaceWeather(table, date, temp, sun, precip, gust, location_id) ==
    IF date = NULL THEN table
    ELSE {r \in table : ~(r.Date = date /\ r.LocationID = location_id)}
         \cup {[WeatherID |-> NextRowId({r.WeatherID : r \in table}),
                 Date |-> date, MaxTemp |-> temp,
                 SunshineDuration |-> sun, PrecipitationSum |-> precip,
                 WindGustsMax |-> gust, LocationID |-> location_id]}

\* INSERT OR IGNORE INTO Weather: a row that violates NOT NULL (Date) or
\* UNIQUE (Date, LocationID) is skipped without an error.
InsertOrIgnoreWeather(table, date, temp, sun, precip, gust, location_id) ==
    IF \/ date = NULL
       \/ \E r \in table : r.Date = date /\ r.LocationID = location_id
    THEN table
    ELSE table \cup {[WeatherID |-> NextRowId({r.WeatherID : r \in table}),
                      Date |-> date, MaxTemp |-> temp,
                      SunshineDuration |-> sun, PrecipitationSum |-> precip,
                      WindGustsMax |-> gust, LocationID |-> location_id]}

(***************************************************************************)
(* The two remote APIs: what a request can be answered with.               *)
(***************************************************************************)
\* the n-th brewery of a directory listing
BreweryItem(n) ==
    [is_dict |-> TRUE,
     name |-> Some(n),
     brewery_type |-> IF n % PER_PAGE_LIMIT \in {4, 5} THEN Some("micro")
                      ELSE IF n % 2 = 0 THEN Some("brewpub")
                      ELSE Some("regional"),
     website_url |-> IF n % 2 = 0 THEN NULL ELSE Some(n)]

\* the first len items of page `page` of a listing served per_page at a time
BreweryPage(page, per_page, len) ==
    [i \in 1..len |-> BreweryItem((page - 1) * per_page + i)]

\* page `page` of a listing whose entries have moved by `shift` places since
\* the pages before it were fetched
BreweryPageShifted(page, per_page, shift) ==
    [i \in 1..per_page |-> BreweryItem((page - 1) * per_page + i + shift)]

\* the moves of a listing that are followed: by one place back, so that the
\* page repeats one entry of the page before it, and by a page less one
\* place forward, so that the page holds none of the entries fetched before
ListingShifts == {0 - 1, PER_PAGE_LIMIT - 1}

\* the page a location fetches last before its minimum is met; the moves of
\* the listing are followed from this page on, where they decide how far
\* the count of a location can pass the minimum
LastPage == ROW_MINIMUM \div PER_PAGE_LIMIT

\* The answers to a brewery request: a full page, a short page, an empty
\* page, and a JSON list whose second element is not an object.  A listing
\* filtered by city is short: its pages hold at most ShortPage items.  From
\* LastPage on, a page of a listing that has moved is an answer too.
BreweryResponses(params) ==
    LET full == IF params.by_city = NULL THEN params.per_page ELSE ShortPage
        short == IF ShortPage < full THEN ShortPage ELSE full
    IN  { BreweryPage(params.page, params.per_page, full),
          BreweryPage(params.page, params.per_page, short),
          << >>,
          << BreweryItem((params.page - 1) * params.per_page + 1),
             [is_dict |-> FALSE] >> }
        \cup (IF params.by_city = NULL /\ params.page >= LastPage
              THEN {BreweryPageShifted(params.page, params.per_page, d) :
                       d \in ListingShifts}
              ELSE {})

\* The answers to a weather request: the 'daily' object of the JSON.
WeatherResponses ==
    { [time |-> <<Some(1), Some(2)>>,
       temperature_2m_max |-> <<Some(200), Some(300)>>,
       sunshine_duration |-> <<Some(3600), Some(7200)>>,
       precipitation_sum |-> <<Some(0), Some(0)>>,
       wind_gusts_10m_max |-> <<Some(10), Some(20)>>],
      [time |-> <<Some(1), Some(2), Some(3)>>,
       temperature_2m_max |-> <<Some(200), Some(200), Some(201)>>,
       sunshine_duration |-> <<Some(3600), Some(3600), Some(0)>>,
       precipitation_sum |-> <<Some(0), Some(5), Some(0)>>,
       wind_gusts_10m_max |-> <<Some(10), Some(30), Some(10)>>],
      [time |-> <<Some(1), Some(2), Some(3)>>,
       temperature_2m_max |-> <<NULL, NULL, NULL>>,
       sunshine_duration |-> <<NULL, NULL, NULL>>,
       precipitation_sum |-> <<NULL, NULL, NULL>>,
       wind_gusts_10m_max |-> <<NULL, NULL, NULL>>],
      [time |-> <<Some(1), Some(2)>>,
       temperature_2m_max |-> <<Some(200)>>,
       sunshine_duration |-> <<Some(3600), Some(7200)>>,
       precipitation_sum |-> <<Some(0), Some(0)>>,
       wind_gusts_10m_max |-> <<Some(10), Some(20)>>],
      [time |-> << >>,
       temperature_2m_max |-> << >>,
       sunshine_duration |-> << >>,
       precipitation_sum |-> << >>,
       wind_gusts_10m_max |-> << >>] }

(***************************************************************************)
(* get_or_create_location (lines 87-96).                                   *)
(***************************************************************************)
\* faulty variant: the lookup by city alone
SelectLocationIDByCity(table, city, state) ==
    {r.LocationID : r \in {x \in table : x.City = city}}

\* SELECT LocationID FROM Locations WHERE City = ? AND State = ?
SelectLocationID(table, city, state) ==
    {r.LocationID : r \in {x \in table : x.City = city /\ x.State = state}}

\* the table after the call
LocationsAfterGetOrCreate(table, city, state, lat, long) ==
    IF SelectLocationID(table, city, state) # {}
    THEN table
    ELSE InsertLocation(table, city, state, lat, long)

\* faulty variant: the row id of an insert is returned although the row was found
get_or_create_location_lastrowid(table, city, state, lat, long) ==
    NextRowId({r.LocationID : r \in table})

\* the value the call returns: the found id, or cur.lastrowid of the insert
get_or_create_location(table, city, state, lat, long) ==
    IF SelectLocationID(table, city, state) # {}
    THEN MinOf(SelectLocationID(table, city, state))
    ELSE NextRowId({r.LocationID : r \in table})

(***************************************************************************)
(* fetch_and_store_breweries (lines 102-162).                              *)
(***************************************************************************)
\* faulty variant: the count without its WHERE clause
BreweryCountAll(table, location_id) == Cardinality(table)

\* SELECT COUNT(*) FROM Breweries WHERE LocationID = ?
BreweryCount(table, location_id) ==
    Cardinality({r \in table : r.LocationID = location_id})

\* next_page = (current_count // PER_PAGE_LIMIT) + 1
NextPage(current_count) == (current_count \div PER_PAGE_LIMIT) + 1

\* faulty variant: the skip test with > for >=
MinimumMetStrict(current_count) == current_count > ROW_MINIMUM

\* the skip test of line 116
MinimumMet(current_count) == current_count >= ROW_MINIMUM

\* params of the request (lines 123-136)
BreweryParams(current_count, city_data) ==
    IF city_data.filter_type = "state"
    THEN [url |-> BREWERY_BASE_URL, per_page |-> PER_PAGE_LIMIT,
          page |-> NextPage(current_count),
          by_state |-> Some(city_data.state), by_city |-> NULL]
    ELSE [url |-> BREWERY_BASE_URL, per_page |-> PER_PAGE_LIMIT,
          page |-> NextPage(current_count),
          by_state |-> Some(city_data.state), by_city |-> Some(city_data.city)]

\* index of the first element of the response that is not an object
\* (brewery.get raises AttributeError there), 0 when there is none
FirstNonDict(brewery_data) ==
    IF \E i \in 1..Len(brewery_data) : ~brewery_data[i].is_dict
    THEN MinOf({i \in 1..Len(brewery_data) : ~brewery_data[i].is_dict})
    ELSE 0

RECURSIVE StoreBreweries(_, _, _, _)
\* the loop of lines 147-158 over brewery_data[i..]: the table after it
StoreBreweries(table, brewery_data, i, location_id) ==
    IF i > Len(brewery_data) THEN table
    ELSE StoreBreweries(
            InsertOrIgnoreBrewery(table, brewery_data[i].name,
                                  brewery_data[i].brewery_type,
                                  brewery_data[i].website_url, location_id),
            brewery_data, i + 1, location_id)

\* inserted_count after the loop of lines 146-158: INSERT OR IGNORE raises
\* no IntegrityError, so line 156 runs once per element of the response
BreweryInsertedCount(table, brewery_data, location_id) == Len(brewery_data)

(***************************************************************************)
(* fetch_and_store_weather (lines 164-214).                                *)
(***************************************************************************)
WeatherParams(city_data) ==
    [url |-> WEATHER_URL, latitude |-> city_data.lat,
     longitude |-> city_data.long, past_days |-> 92, forecast_days |-> 16]

\* whether the tuple of line 206 can be built for every i in range(len(dates))
ArraysCoverDates(wd) ==
    /\ Len(wd.temperature_2m_max) >= Len(wd.time)
    /\ Len(wd.sunshine_duration) >= Len(wd.time)
    /\ Len(wd.precipitation_sum) >= Len(wd.time)
    /\ Len(wd.wind_gusts_10m_max) >= Len(wd.time)

RECURSIVE StoreWeather(_, _, _, _)
\* the loop of lines 199-210 over dates[i..]: the table after it
StoreWeather(table, wd, i, location_id) ==
    IF i > Len(wd.time) THEN table
    ELSE StoreWeather(
            InsertOrIgnoreWeather(table, wd.time[i], wd.temperature_2m_max[i],
                                  wd.sunshine_duration[i],
                                  wd.precipitation_sum[i],
                                  wd.wind_gusts_10m_max[i], location_id),
            wd, i + 1, location_id)

\* inserted_count after the loop of lines 192-210: line 208 runs once per date
WeatherInsertedCount(table, wd, location_id) == Len(wd.time)

(***************************************************************************)
(* run_correlation_calculation and write_calculation_to_file               *)
(* (lines 220-269).                                                        *)
(***************************************************************************)
\* FROM Breweries B JOIN Locations L ON B.LocationID = L.LocationID
\*                  JOIN Weather W ON L.LocationID = W.LocationID
\* WHERE B.BreweryType = 'micro' AND L.LocationID = ?
JoinRows(B, L, W, location_id) ==
    {j \in B \X L \X W :
        /\ j[1].LocationID = j[2].LocationID
        /\ j[2].LocationID = j[3].LocationID
        /\ j[1].BreweryType = Some("micro")
        /\ j[2].LocationID = location_id}

\* x / n rounded to the nearest integer, halves away from zero (n > 0)
RoundDiv(x, n) ==
    IF x >= 0 THEN (2 * x + n) \div (2 * n)
    ELSE 0 - ((2 * (0 - x) + n) \div (2 * n))

\* ROUND(AVG(W.MaxTemp), 2) over the joined rows, in hundredths of a degree:
\* AVG skips NULL and is NULL when no joined row has a MaxTemp
AvgMaxTemp(J) ==
    LET T == {j \in J : j[3].MaxTemp # NULL}
        tenths == [j \in T |-> j[3].MaxTemp[1]]
    IN  IF T = {} THEN NULL
        ELSE Some(RoundDiv(10 * SumOf(tenths, T), Cardinality(T)))

\* faulty variant: COUNT(B.BreweryID) without DISTINCT
MicroCountAll(J) == Cardinality(J)

\* COUNT(DISTINCT B.BreweryID) over the joined rows
MicroCount(J) == Cardinality({j[1].BreweryID : j \in J})

\* the one row the aggregate query returns
CorrelationQuery(B, L, W, location_id) ==
    LET J == JoinRows(B, L, W, location_id)
    IN  [avg_temp |-> AvgMaxTemp(J), micro_count |-> MicroCount(J)]

\* the test of line 259
HasData(result) == result.avg_temp # NULL

\* the block write_calculation_to_file builds (the timestamp is left out)
ReportBlock(data) ==
    [city |-> TARGET_CITY, state |-> TARGET_STATE,
     avg_temp |-> data.avg_temp[1], micro_count |-> data.micro_count]

\* faulty variant: the file opened with 'w'
OverwriteFile(file, block) == <<block>>

\* open(filename, 'a') and f.write(output)
AppendToFile(file, block) == Append(file, block)

(***************************************************************************)
(* The four charts (lines 275-438): the rows each chart's query returns.   *)
(***************************************************************************)
\* SELECT LocationID FROM Locations WHERE City = '...' as a scalar subquery
CityLocationID(L, city) ==
    IF \E r \in L : r.City = city
    THEN Some(MinOf({r.LocationID : r \in {x \in L : x.City = city}}))
    ELSE NULL

\* chart 1: one row per BreweryType of Breweries
Viz1Rows(B) == {r.BreweryType : r \in B}

\* charts 2 and 3: the Weather rows of the named city
VizCityRows(L, W, city) ==
    {r \in W : Some(r.LocationID) = CityLocationID(L, city)}

\* chart 4: the cities whose weather rows have an average sunshine duration
Viz4Rows(L, W) ==
    {l.City : l \in {x \in L : \E r \in W : /\ r.LocationID = x.LocationID
                                           /\ r.SunshineDuration # NULL}}

\* whether the query of chart n returns no row
VizEmpty(n, B, L, W) ==
    CASE n = 1 -> Viz1Rows(B) = {}
      [] n = 2 -> VizCityRows(L, W, CITIES[1].city) = {}
      [] n = 3 -> VizCityRows(L, W, CITIES[2].city) = {}
      [] n = 4 -> Viz4Rows(L, W) = {}

(***************************************************************************)
(* The state.  pc is the position of the running script in main();         *)
(* "start", "done" and "crashed" are the positions with no process         *)
(* running.  `last` records the call made last: the function, its          *)
(* arguments, the response its request was answered with, how it ended,    *)
(* what it returned (<<>> when it raised instead of returning) and the     *)
(* requests it issued.                                                     *)
(***************************************************************************)
Call(fn, args, response, outcome, ret, requests) ==
    [fn |-> fn, args |-> args, response |-> response, outcome |-> outcome,
     ret |-> ret, requests |-> requests]

NoCall == Call("none", <<>>, <<>>, "none", <<>>, <<>>)

\* faulty variant: the RequestException is not caught: the ingester raises
RequestFailedUncaught(fn, args, params) ==
    Call(fn, args, <<>>, "http_error", <<>>, <<params>>)

\* lines 142-144 and 188-190: the RequestException is caught where the
\* request is made, and the ingester returns 0
RequestFailed(fn, args, params) ==
    Call(fn, args, <<>>, "http_error", <<0>>, <<params>>)

Init ==
    /\ Locations = {}
    /\ Breweries = {}
    /\ Weather = {}
    /\ report = <<>>
    /\ pc = "start"
    /\ ci = 1
    /\ location_ids = <<>>
    /\ last = NoCall
    /\ runs = 0

(***************************************************************************)
(* The functions as actions on the database and the report.                *)
(***************************************************************************)
\* get_or_create_location(cur, city, state, lat, long)
CallGetOrCreateLocation(city, state, lat, long) ==
    /\ Locations' = LocationsAfterGetOrCreate(Locations, city, state, lat, long)
    /\ last' = Call("get_or_create_location", <<city, state, lat, long>>, <<>>,
                    "ok",
                    <<get_or_create_location(Locations, city, state, lat, long)>>,
                    <<>>)

\* fetch_and_store_breweries(conn, location_id, city_data)
fetch_and_store_breweries(location_id, city_data) ==
    LET current_count == BreweryCount(Breweries, location_id)
        params == BreweryParams(current_count, city_data)
        fn == "fetch_and_store_breweries"
        args == <<location_id, city_data>>
    IN  \/ \* lines 116-118: the minimum is met
           /\ MinimumMet(current_count)
           /\ last' = Call(fn, args, <<>>, "skip", <<0>>, <<>>)
           /\ UNCHANGED Breweries
        \/ \* lines 142-144: the request fails
           /\ ~MinimumMet(current_count)
           /\ last' = RequestFailed(fn, args, params)
           /\ UNCHANGED Breweries
        \/ \* lines 146-162: the response is stored and committed; an
           \* element that is no object raises AttributeError, which leaves
           \* the loop before the commit of line 160, so that the rows
           \* inserted before it are rolled back when the process ends
           /\ ~MinimumMet(current_count)
           /\ \E brewery_data \in BreweryResponses(params) :
                 IF FirstNonDict(brewery_data) = 0
                 THEN /\ Breweries' = StoreBreweries(Breweries, brewery_data,
                                                     1, location_id)
                      /\ last' = Call(fn, args, brewery_data, "stored",
                                      <<BreweryInsertedCount(Breweries,
                                            brewery_data, location_id)>>,
                                      <<params>>)
                 ELSE /\ UNCHANGED Breweries
                      /\ last' = Call(fn, args, brewery_data, "attribute_error",
                                      <<>>, <<params>>)

\* fetch_and_store_weather(conn, location_id, city_data)
fetch_and_store_weather(location_id, city_data) ==
    LET params == WeatherParams(city_data)
        fn == "fetch_and_store_weather"
        args == <<location_id, city_data>>
    IN  \/ \* lines 188-190: the request fails
           /\ last' = RequestFailed(fn, args, params)
           /\ UNCHANGED Weather
        \/ \* lines 192-214: the response is stored and committed; an array
           \* shorter than the dates raises IndexError, which leaves the
           \* loop before the commit of line 212, so that the rows inserted
           \* before it are rolled back when the process ends
           \E wd \in WeatherResponses :
                 IF ArraysCoverDates(wd)
                 THEN /\ Weather' = StoreWeather(Weather, wd, 1, location_id)
                      /\ last' = Call(fn, args, wd, "stored",
                                      <<WeatherInsertedCount(Weather, wd,
                                                             location_id)>>,
                                      <<params>>)
                 ELSE /\ UNCHANGED Weather
                      /\ last' = Call(fn, args, wd, "index_error", <<>>,
                                      <<params>>)

\* run_correlation_calculation(conn, location_id)
run_correlation_calculation(location_id) ==
    LET result == CorrelationQuery(Breweries, Locations, Weather, location_id)
        fn == "run_correlation_calculation"
    IN  \/ \* lines 267-269: no data
           /\ ~HasData(result)
           /\ last' = Call(fn, <<location_id>>, <<>>, "no_data",
                           <<NULL, NULL>>, <<>>)
           /\ UNCHANGED report
        \/ \* lines 259-266: the block is appended to the report
           /\ HasData(result)
           /\ report' = AppendToFile(report, ReportBlock(result))
           /\ last' = Call(fn, <<location_id>>, <<>>, "written",
                           <<result.avg_temp, Some(result.micro_count)>>, <<>>)
        \/ \* line 232: the report cannot be opened for appending, and the
           \* OSError leaves write_calculation_to_file and its caller
           /\ HasData(result)
           /\ last' = Call(fn, <<location_id>>, <<>>, "os_error", <<>>, <<>>)
           /\ UNCHANGED report

\* create_visualization_n(...): every exception inside a chart routine is
\* caught by the routine's own except clause, and the routine returns
create_visualization(n) ==
    \/ \* the query returns no row: nothing is written
       /\ VizEmpty(n, Breweries, Locations, Weather)
       /\ last' = Call("create_visualization", <<n>>, <<>>, "empty", <<NULL>>,
                       <<>>)
    \/ \* the image is saved
       /\ ~VizEmpty(n, Breweries, Locations, Weather)
       /\ last' = Call("create_visualization", <<n>>, <<>>, "saved", <<NULL>>,
                       <<>>)
    \/ \* savefig raises an OSError, which the routine catches
       /\ ~VizEmpty(n, Breweries, Locations, Weather)
       /\ last' = Call("create_visualization", <<n>>, <<>>, "os_error",
                       <<NULL>>, <<>>)

(***************************************************************************)
(* main() (lines 445-499).                                                 *)
(***************************************************************************)
\* faulty variant: an exception that left the call is swallowed
AfterCallSwallowed(call, next) == next

\* where main() goes on after a call: an exception that left the call
\* reaches the handler of lines 495-499, which ends the run
AfterCall(call, next) == IF call.ret = <<>> THEN "crashed" ELSE next

\* the position after the weather step of city i (lines 461, 477)
AfterWeather(i) == IF i < Len(CITIES) THEN "resolve" ELSE "calc"

\* the position of chart n and the position after it (lines 483-488)
VizPc(n) ==
    CASE n = 1 -> "viz1" [] n = 2 -> "viz2" [] n = 3 -> "viz3" [] n = 4 -> "viz4"

AfterViz(n) ==
    CASE n = 1 -> "viz2" [] n = 2 -> "viz3" [] n = 3 -> "viz4" [] n = 4 -> "close"

\* lines 491-494 and 451-458: the script is started; create_database finds
\* or creates the tables (CREATE TABLE IF NOT EXISTS changes no row)
BeginRun ==
    /\ pc \in {"start", "done", "crashed"}
    /\ pc' = "resolve"
    /\ ci' = 1
    /\ location_ids' = <<>>
    /\ last' = Call("create_database", <<>>, <<>>, "ok", <<NULL>>, <<>>)
    /\ UNCHANGED <<Locations, Breweries, Weather, report>>

\* the runs of the script, counted up to MaxRuns
StartRun ==
    /\ runs < MaxRuns
    /\ runs' = runs + 1
    /\ BeginRun

\* lines 463-465: resolve the city's location and commit
ResolveLocation ==
    /\ pc = "resolve"
    /\ CallGetOrCreateLocation(CITIES[ci].city, CITIES[ci].state,
                               CITIES[ci].lat, CITIES[ci].long)
    /\ location_ids' = (CITIES[ci].city :> last'.ret[1]) @@ location_ids
    /\ pc' = "breweries"
    /\ UNCHANGED <<Breweries, Weather, report, ci, runs>>

\* line 468
FetchBreweries ==
    /\ pc = "breweries"
    /\ fetch_and_store_breweries(location_ids[CITIES[ci].city], CITIES[ci])
    /\ pc' = AfterCall(last', "weather")
    /\ UNCHANGED <<Locations, Weather, report, ci, location_ids, runs>>

\* line 472, and the loop of line 461 going on to the next city
FetchWeather ==
    /\ pc = "weather"
    /\ fetch_and_store_weather(location_ids[CITIES[ci].city], CITIES[ci])
    /\ pc' = AfterCall(last', AfterWeather(ci))
    /\ ci' = IF pc' = "resolve" THEN ci + 1 ELSE ci
    /\ UNCHANGED <<Locations, Breweries, report, location_ids, runs>>

\* lines 476-477
RunCorrelation ==
    /\ pc = "calc"
    /\ run_correlation_calculation(location_ids[CITIES[1].city])
    /\ pc' = AfterCall(last', "viz1")
    /\ UNCHANGED <<Locations, Breweries, Weather, ci, location_ids, runs>>

\* lines 483-486
CreateVisualization(n) ==
    /\ pc = VizPc(n)
    /\ create_visualization(n)
    /\ pc' = AfterCall(last', AfterViz(n))
    /\ UNCHANGED <<Locations, Breweries, Weather, report, ci, location_ids, runs>>

\* lines 488-489: the connection is closed and the script ends
Finish ==
    /\ pc = "close"
    /\ pc' = "done"
    /\ last' = Call("main", <<>>, <<>>, "complete", <<NULL>>, <<>>)
    /\ UNCHANGED <<Locations, Breweries, Weather, report, ci,
                   location_ids, runs>>

Next ==
    \/ StartRun
    \/ ResolveLocation
    \/ FetchBreweries
    \/ FetchWeather
    \/ RunCorrelation
    \/ \E n \in 1..4 : CreateVisualization(n)
    \/ Finish

Spec == Init /\ [][Next]_vars

(***************************************************************************)
(* The script run any number of times while the weather service answers    *)
(* with nothing that is new: the runs are not counted, and the brewery     *)
(* tables of the locations fill up to their minimum.                       *)
(***************************************************************************)
StartRunAgain ==
    /\ BeginRun
    /\ UNCHANGED runs

FetchWeatherNothingNew ==
    /\ FetchWeather
    /\ Weather' = Weather

NextPages ==
    \/ StartRunAgain
    \/ ResolveLocation
    \/ FetchBreweries
    \/ FetchWeatherNothingNew
    \/ RunCorrelation
    \/ \E n \in 1..4 : CreateVisualization(n)
    \/ Finish

SpecPages == Init /\ [][NextPages]_vars

(***************************************************************************)
(* The ingesters on their own: the two locations are resolved, and the     *)
(* ingesters are called for them any number of times, as the runs of the   *)
(* script call them over time.                                             *)
(***************************************************************************)
RECURSIVE ResolveAll(_, _)
\* the Locations table after the first n cities were resolved, from `table`
ResolveAll(table, n) ==
    IF n = 0 THEN table
    ELSE LET t == ResolveAll(table, n - 1)
         IN  LocationsAfterGetOrCreate(t, CITIES[n].city, CITIES[n].state,
                                       CITIES[n].lat, CITIES[n].long)

InitIngest ==
    /\ Locations = ResolveAll({}, Len(CITIES))
    /\ Breweries = {}
    /\ Weather = {}
    /\ report = <<>>
    /\ pc = "start"
    /\ ci = 1
    /\ location_ids =
          [c \in {CITIES[i].city : i \in 1..Len(CITIES)} |->
              get_or_create_location(Locations, c,
                  (CHOOSE x \in {CITIES[i] : i \in 1..Len(CITIES)} : x.city = c).state,
                  0, 0)]
    /\ last = NoCall
    /\ runs = 0

IngestBreweries ==
    /\ \E i \in 1..Len(CITIES) :
          fetch_and_store_breweries(location_ids[CITIES[i].city], CITIES[i])
    /\ UNCHANGED <<Locations, Weather, report, pc, ci, location_ids, runs>>

IngestWeather ==
    /\ \E i \in 1..Len(CITIES) :
          fetch_and_store_weather(location_ids[CITIES[i].city], CITIES[i])
    /\ UNCHANGED <<Locations, Breweries, report, pc, ci, location_ids, runs>>

NextBrew == IngestBreweries

SpecBrew == InitIngest /\ [][NextBrew]_vars

NextWeather == IngestWeather

SpecWeather == InitIngest /\ [][NextWeather]_vars

(***************************************************************************)
(* The location resolver on its own, called with any arguments.            *)
(***************************************************************************)
CityNames == {CITIES[i].city : i \in 1..Len(CITIES)}
StateNames == {CITIES[i].state : i \in 1..Len(CITIES)}
Latitudes == {CITIES[i].lat : i \in 1..Len(CITIES)}
Longitudes == {CITIES[1].long}

ResolveAny ==
    /\ \E city \in CityNames, state \in StateNames,
          lat \in Latitudes, long \in Longitudes :
          CallGetOrCreateLocation(city, state, lat, long)
    /\ UNCHANGED <<Breweries, Weather, report, pc, ci, location_ids, runs>>

NextLoc == ResolveAny

SpecLoc == Init /\ [][NextLoc]_vars

(***************************************************************************)
(* Properties.                                                             *)
(***************************************************************************)
\* the rows of a table that belong to a location
RowsAt(table, loc) == {r \in table : r.LocationID = loc}

\* C1: a call of fetch_and_store_breweries for a location that holds 100 or
\* more brewery rows issues no request, returns 0 and leaves Breweries as it
\* was, whatever calls came before.
C1_SkipAtMinimum ==
    [][ (/\ last'.fn = "fetch_and_store_breweries"
         /\ Cardinality(RowsAt(Breweries, last'.args[1])) >= 100)
        => (/\ last'.requests = <<>>
            /\ last'.ret = <<0>>
            /\ Breweries' = Breweries) ]_vars

\* C1 happens: a call was skipped at a location with 100 rows or more, after
\* the calls that stored them
C1_Witness ==
    /\ last.fn = "fetch_and_store_breweries"
    /\ last.outcome = "skip"
    /\ Cardinality(RowsAt(Breweries, last.args[1])) >= 100

\* C2: a call of fetch_and_store_breweries for a location that holds n < 100
\* brewery rows issues exactly one request, with per_page = 25 and
\* page = floor(n / 25) + 1, n counting the rows of that location only.
C2_OneRequestNextPage ==
    [][ LET n == Cardinality(RowsAt(Breweries, last'.args[1]))
        IN  (last'.fn = "fetch_and_store_breweries" /\ n < 100)
            => (/\ Len(last'.requests) = 1
                /\ last'.requests[1].per_page = 25
                /\ last'.requests[1].page = (n \div 25) + 1) ]_vars

\* C2 happens: page 1 was requested for a location while the other location
\* held a page of rows or more
C2_Witness ==
    /\ last.fn = "fetch_and_store_breweries"
    /\ Len(last.requests) = 1
    /\ last.requests[1].page = 1
    /\ Cardinality(Breweries \ RowsAt(Breweries, last.args[1])) >= 25

\* C3: the count an ingester returns is the number of rows the call added
\* to its table: the row count after the call minus the row count before it,
\* for fetch_and_store_breweries and for fetch_and_store_weather alike.
C3_ReturnsRowsAdded ==
    [][ /\ (pc = "breweries" /\ last'.ret # <<>>)
           => last'.ret[1] = Cardinality(Breweries') - Cardinality(Breweries)
        /\ (pc = "weather" /\ last'.ret # <<>>)
           => last'.ret[1] = Cardinality(Weather') - Cardinality(Weather) ]_vars

\* C4: the Weather table holds at most one row per (Date, LocationID); no
\* call changes or removes a row, so a stored row keeps its values whatever
\* a later response carries for its date; and a call whose response is the
\* response of the call before it, for the same location, adds no row.
C4_WeatherIdempotent ==
    /\ [](\A r1 \in Weather, r2 \in Weather :
             (r1.Date = r2.Date /\ r1.LocationID = r2.LocationID) => r1 = r2)
    /\ [][ /\ \A r \in Weather : r \in Weather'
           /\ (/\ last.fn = "fetch_and_store_weather"
               /\ last.outcome = "stored"
               /\ last'.fn = "fetch_and_store_weather"
               /\ last'.args = last.args
               /\ last'.response = last.response)
              => Weather' = Weather ]_vars

\* C4 happens: a response was stored that carried, for a date the location
\* already held, a temperature other than the stored one
C4_Witness ==
    /\ last.fn = "fetch_and_store_weather"
    /\ last.outcome = "stored"
    /\ \E i \in 1..Len(last.response.time) :
          \E r \in RowsAt(Weather, last.args[1]) :
             /\ r.Date = last.response.time[i]
             /\ r.MaxTemp # last.response.temperature_2m_max[i]

\* C5: the Locations table holds at most one row per (City, State) and no
\* two rows share a LocationID; get_or_create_location returns the
\* LocationID of the row of its (city, state); and no call changes or
\* removes a row, so that every call for a pair returns the same id and the
\* coordinates stored first stay, whatever coordinates a later call passes.
C5_LocationUnique ==
    /\ [](\A r1 \in Locations, r2 \in Locations :
             (\/ (r1.City = r2.City /\ r1.State = r2.State)
              \/ r1.LocationID = r2.LocationID) => r1 = r2)
    /\ [](last.fn = "get_or_create_location"
             => \E r \in Locations : /\ r.City = last.args[1]
                                     /\ r.State = last.args[2]
                                     /\ r.LocationID = last.ret[1])
    /\ [][\A r \in Locations : r \in Locations']_vars

\* C5 happens: a call passed a latitude other than the stored one for a pair
\* that was already stored, next to the row of another pair
C5_Witness ==
    /\ last.fn = "get_or_create_location"
    /\ Cardinality(Locations) >= 2
    /\ \E r \in Locations : /\ r.City = last.args[1]
                            /\ r.State = last.args[2]
                            /\ r.LocationID = last.ret[1]
                            /\ r.Latitude # last.args[3]

\* the steps of main() in their order: the position after each position
PipelineOrder ==
    /\ pc = "resolve" => pc' = "breweries"
    /\ pc = "breweries" => pc' \in {"weather", "crashed"}
    /\ pc = "weather" => pc' \in {"crashed", IF ci = 1 THEN "resolve" ELSE "calc"}
    /\ pc = "calc" => pc' \in {"viz1", "crashed"}
    /\ pc = "viz1" => pc' = "viz2"
    /\ pc = "viz2" => pc' = "viz3"
    /\ pc = "viz3" => pc' = "viz4"
    /\ pc = "viz4" => pc' = "close"
    /\ pc = "close" => pc' = "done"

\* C6: an ingester whose request fails returns 0 after that one request,
\* changes no table and not the report, and the run goes on with the next
\* step: the weather of the same city after the breweries, the next city or
\* the correlation calculation after the weather; the steps follow each
\* other in the order of main().
C6_HttpErrorContinues ==
    [][ /\ PipelineOrder
        /\ (pc \in {"breweries", "weather"} /\ last'.outcome = "http_error")
           => (/\ last'.ret = <<0>>
               /\ Len(last'.requests) = 1
               /\ UNCHANGED <<Locations, Breweries, Weather, report>>
               /\ pc = "breweries" => (pc' = "weather" /\ ci' = ci)
               /\ (pc = "weather" /\ ci = 1) => (pc' = "resolve" /\ ci' = 2)
               /\ (pc = "weather" /\ ci = 2) => pc' = "calc") ]_vars

\* C6 happens: the weather request of the last city failed and the run is at
\* the correlation calculation
C6_Witness ==
    /\ pc = "calc"
    /\ last.fn = "fetch_and_store_weather"
    /\ last.outcome = "http_error"

\* the 'micro' breweries of a location, and its weather rows with a MaxTemp
MicroAt(loc) == {b \in RowsAt(Breweries, loc) : b.BreweryType = Some("micro")}
TempsAt(loc) == {w \in RowsAt(Weather, loc) : w.MaxTemp # NULL}

\* the sum of MaxTemp, in tenths of a degree, over the rows of TempsAt(loc)
TempSumAt(loc) == SumOf([w \in TempsAt(loc) |-> w.MaxTemp[1]], TempsAt(loc))

\* run_correlation_calculation has just returned for a location that has a
\* 'micro' brewery and a weather row with a MaxTemp
CorrelationReturned ==
    /\ last.fn = "run_correlation_calculation"
    /\ last.ret # <<>>
    /\ MicroAt(last.args[1]) # {}
    /\ TempsAt(last.args[1]) # {}

\* C7 as claimed: for a location with a 'micro' brewery and a weather row
\* with a MaxTemp, run_correlation_calculation returns (a, c) with a the mean
\* of MaxTemp over the location's weather rows and c the number of its
\* 'micro' breweries.  (a is in hundredths and the sum S of the k values in
\* tenths of a degree: a / 100 = S / (10 k) is a * k = 10 * S.)
C7_ExactMean ==
    CorrelationReturned
    => LET loc == last.args[1]
       IN  /\ last.ret[2] = Some(Cardinality(MicroAt(loc)))
           /\ last.ret[1] # NULL
           /\ last.ret[1][1] * Cardinality(TempsAt(loc)) = 10 * TempSumAt(loc)

\* C7 as amended: a is the mean of MaxTemp over the location's weather rows
\* that have a MaxTemp, rounded to two decimals (it differs from the mean by
\* at most 0.005), and c is the number of the location's 'micro' breweries.
C7_RoundedMean ==
    CorrelationReturned
    => LET loc == last.args[1]
           k == Cardinality(TempsAt(loc))
           d == last.ret[1][1] * k - 10 * TempSumAt(loc)
       IN  /\ last.ret[2] = Some(Cardinality(MicroAt(loc)))
           /\ last.ret[1] # NULL
           /\ 2 * d <= k
           /\ 2 * (0 - d) <= k

\* C7 happens: 2 'micro' breweries among others and weather rows of 20.0 and
\* 30.0 degrees gave (25.00, 2), while the other location held breweries and
\* a weather row of another temperature
C7_Witness ==
    /\ CorrelationReturned
    /\ Cardinality(MicroAt(last.args[1])) = 2
    /\ RowsAt(Breweries, last.args[1]) # MicroAt(last.args[1])
    /\ {w.MaxTemp : w \in RowsAt(Weather, last.args[1])} = {Some(200), Some(300)}
    /\ last.ret = <<Some(2500), Some(2)>>
    /\ \E b \in Breweries : b.LocationID # last.args[1]
    /\ \E w \in Weather : w.LocationID # last.args[1] /\ w.MaxTemp = Some(201)

\* C8 as claimed: run_correlation_calculation, when it returns, has appended
\* to the report if and only if the location has a 'micro' brewery and a
\* weather row.
C8_WritesIffJoinRows ==
    [][ (pc = "calc" /\ pc' # "crashed")
        => LET loc == location_ids[CITIES[1].city]
           IN  (report' # report)
               <=> (MicroAt(loc) # {} /\ RowsAt(Weather, loc) # {}) ]_vars

\* C8 as amended: run_correlation_calculation, when it returns, has appended
\* exactly one block to the end of the report if the location has a 'micro'
\* brewery and a weather row whose MaxTemp is not NULL, and otherwise has
\* returned the no-data result and left the report as it was; a call that
\* raises leaves the report as it was; no other step changes the report.
C8_ReportAppendOnly ==
    [][ /\ pc # "calc" => report' = report
        /\ pc = "calc"
           => LET loc == location_ids[CITIES[1].city]
              IN  IF pc' = "crashed" THEN report' = report
                  ELSE IF MicroAt(loc) # {} /\ TempsAt(loc) # {}
                  THEN /\ Len(report') = Len(report) + 1
                       /\ SubSeq(report', 1, Len(report)) = report
                  ELSE /\ report' = report
                       /\ last'.ret = <<NULL, NULL>> ]_vars

\* C8 happens: a second block was appended behind the block of an earlier run
C8_Witness ==
    /\ last.fn = "run_correlation_calculation"
    /\ last.outcome = "written"
    /\ Len(report) = 2

\* C9: every Breweries row and every Weather row carries the LocationID of
\* a Locations row; while a city's breweries and weather are ingested, the
\* id held for the city is the id of the city's committed Locations row; and
\* no step removes a Locations row or changes its key.
C9_ReferentialIntegrity ==
    /\ [](/\ \A b \in Breweries : \E l \in Locations : l.LocationID = b.LocationID
          /\ \A w \in Weather : \E l \in Locations : l.LocationID = w.LocationID
          /\ pc \in {"breweries", "weather"}
             => /\ CITIES[ci].city \in DOMAIN location_ids
                /\ \E l \in Locations :
                      /\ l.LocationID = location_ids[CITIES[ci].city]
                      /\ l.City = CITIES[ci].city
                      /\ l.State = CITIES[ci].state)
    /\ [][\A l \in Locations : l \in Locations']_vars

\* C9 happens: in a second run, both locations are referenced by brewery
\* rows and by weather rows
C9_Witness ==
    /\ runs = 2
    /\ Cardinality(Locations) = 2
    /\ \A l \in Locations : /\ RowsAt(Breweries, l.LocationID) # {}
                            /\ RowsAt(Weather, l.LocationID) # {}

\* the failures that are neither a failed request nor a uniqueness violation
OtherFailures == {"index_error", "attribute_error", "os_error"}

\* C10 as claimed: a step of the run that fails with an error other than a
\* failed request or a uniqueness violation ends the run.
C10_EveryFailureEndsRun ==
    [][ (pc \notin {"start", "done", "crashed"} /\ last'.outcome \in OtherFailures)
        => pc' = "crashed" ]_vars

\* C10 as amended: such a failure in an ingester or in the correlation
\* calculation ends the run, and after it only a new run starts; such a
\* failure in a chart routine is handled in the routine, and the run goes on
\* with the next chart.
C10_FailurePropagation ==
    [][ /\ (/\ pc \in {"breweries", "weather", "calc"}
            /\ last'.outcome \in OtherFailures)
           => pc' = "crashed"
        /\ pc = "crashed" => (pc' = "resolve" /\ runs' = runs + 1 /\ ci' = 1)
        /\ (pc \in {"viz1", "viz2", "viz3", "viz4"} /\ last'.outcome = "os_error")
           => /\ pc = "viz1" => pc' = "viz2"
              /\ pc = "viz2" => pc' = "viz3"
              /\ pc = "viz3" => pc' = "viz4"
              /\ pc = "viz4" => pc' = "close" ]_vars

\* C10 happens: the weather ingestion of the first city raised an IndexError
\* and the run has ended there
C10_Witness ==
    /\ pc = "crashed"
    /\ ci = 1
    /\ last.fn = "fetch_and_store_weather"
    /\ last.outcome = "index_error"


(***************************************************************************)
(* C11: each run advances the brewery storage of a location by at most one *)
(* page.                                                                   *)
(***************************************************************************)
BreweryRowCount(loc) == Cardinality(RowsAt(Breweries, loc))

BreweryRowCountAfter(loc) == Cardinality(RowsAt(Breweries', loc))

\* the brewery step of main is taken once per location and run: it is
\* entered from the resolution of the location only, and the resolution of
\* a location is entered for the first city when a run begins and for the
\* next city after the weather step of the city before it
OneBreweryStepPerLocation ==
    /\ pc' = "breweries" /\ pc # "breweries" => pc = "resolve" /\ ci' = ci
    /\ pc' = "resolve" /\ pc # "resolve" =>
          \/ pc \in {"start", "done", "crashed"} /\ ci' = 1
          \/ pc = "weather" /\ ci' = ci + 1
    /\ pc' = pc => ci' = ci
    /\ pc = "breweries" => pc' # "breweries"

\* the brewery step issues at most one request and, when the answer holds
\* at most 25 items, adds between 0 and 25 rows to the location it was
\* called for and none to another; no other step changes the table
OnePageAtMost ==
    /\ pc = "breweries" =>
          /\ last'.fn = "fetch_and_store_breweries"
          /\ Len(last'.requests) <= 1
          /\ CITIES[ci].city \in DOMAIN location_ids
          /\ Len(last'.response) <= 25 =>
                LET loc == location_ids[CITIES[ci].city]
                IN  /\ BreweryRowCountAfter(loc) >= BreweryRowCount(loc)
                    /\ BreweryRowCountAfter(loc) <= BreweryRowCount(loc) + 25
          /\ \A l \in Locations :
                l.LocationID # location_ids[CITIES[ci].city] =>
                   RowsAt(Breweries', l.LocationID)
                      = RowsAt(Breweries, l.LocationID)
    /\ pc # "breweries" => Breweries' = Breweries

\* C11: within one run at most one brewery request is issued per location,
\* the stored brewery count of the location does not decrease and grows by
\* at most 25, and after any number of runs the stored brewery count of a
\* location never exceeds 124
C11_OnePagePerRun ==
    /\ [](\A l \in Locations : BreweryRowCount(l.LocationID) <= 124)
    /\ [](\A c1, c2 \in DOMAIN location_ids :
             c1 # c2 => location_ids[c1] # location_ids[c2])
    /\ [][OneBreweryStepPerLocation /\ OnePageAtMost]_vars

\* a run has stored a whole page for a location that held 99 rows
C11_Witness ==
    /\ pc = "weather"
    /\ last.fn = "fetch_and_store_breweries"
    /\ last.outcome = "stored"
    /\ Len(last.requests) = 1
    /\ Len(last.response) = 25
    /\ CITIES[ci].city \in DOMAIN location_ids
    /\ BreweryRowCount(location_ids[CITIES[ci].city]) = 124

====
